---- MODULE Spec2Model ----
(***************************************************************************)
(* Trading game (assets/js/game-single-file.js): the market logic, the     *)
(* game state, the game logic and the p5.js handlers that drive them.      *)
(*                                                                         *)
(* Numbers.  JavaScript Numbers are modelled in fixed point:               *)
(*   - cash, wealth, friction cost and zeta are integers in hundredths;    *)
(*   - prices are whole units (assetPrice holds units, cash arithmetic     *)
(*     multiplies by Hundredths);                                          *)
(*   - depth is an integer in tenths (depth 5.0 is 50, 0.1 is 1);          *)
(*   - resilience is an integer k standing for resilience 4*ln(2)*k, so    *)
(*     exp(-resilience) = 1/16^k and, with zetaStepsPerMarketStep = 4,     *)
(*     exp(-resilience/4) = 1/2^k; products are truncated to hundredths;   *)
(*   - liquidation rates are exact rationals [num, den].                   *)
(***************************************************************************)
EXTENDS Integers, Sequences, FiniteSets, TLC

\* gameState: the page's game state object
\* lastOp: the handler that ran last and what it did (observation only)
VARIABLES gameState, lastOp, buttons, looping

vars == <<gameState, lastOp, buttons, looping>>

(***************************************************************************)
(* Bounds of the model                                                     *)
(***************************************************************************)
\* number of points of every trajectory of the loaded CSV data
TrajLen == 7
\* cap on the length of a LinearSpread.zetaHistory (it grows on every
\* valueFor call, rejected trades included)
MaxZetaHistory == 9
\* liquidation controller taken alone: largest |inventory| and longest
\* liquidation period of the schedules it is run on
MaxLiqInventory == 3
MaxLiqPeriod == 3
\* liquidation schedules followed from their start: largest |inventory| at
\* entry and longest liquidation period
MaxSchedInventory == 10
MaxSchedPeriod == 5
\* data rows of the longest trajectory beyond CONFIG.initialTerminalTime + 1
ExtraPoints == 9

(***************************************************************************)
(* CONFIG                                                                  *)
(***************************************************************************)
initialTerminalTime == 50
pointsPerCandle == 10
zetaStepsPerMarketStep == 4
minZetaStepsBetweenTrades == 1
commonCash == 100
initialInventory == 0
\* tradingHorizonFraction 0.8 as the fraction 4/5
tradingHorizonFractionNum == 4
tradingHorizonFractionDen == 5
\* createGameState / resetGameState: lastTradeZetaTime sentinel
NoTradeZetaTime == -999

\* fixed-point unit of cash, wealth, friction cost and zeta
Hundredths == 100

(***************************************************************************)
(* Arithmetic helpers (Math.abs, Math.sign, Math.min, Math.max,            *)
(* Math.round)                                                             *)
(***************************************************************************)
Abs(x) == IF x < 0 THEN -x ELSE x

Sign(x) == IF x > 0 THEN 1 ELSE IF x < 0 THEN -1 ELSE 0

Min(a, b) == IF a < b THEN a ELSE b

Max(a, b) == IF a > b THEN a ELSE b

\* Math.round of the rational num/den (den > 0): floor(x + 1/2)
Round(num, den) == (2 * num + den) \div (2 * den)

Last(s) == s[Len(s)]

RECURSIVE Pow(_, _)
Pow(b, e) == IF e = 0 THEN 1 ELSE b * Pow(b, e - 1)

\* Math.exp(-resilience) * z, truncated to hundredths
DecayFull(resilience, z) == z \div Pow(16, resilience)

\* Math.exp(-resilience / CONFIG.zetaStepsPerMarketStep) * z
DecayMicro(resilience, z) == z \div Pow(2, resilience)

\* (1.0 / Math.max(0.1, depth)) * Math.abs(action), in hundredths
Impact(depth, action) == ((10 * Hundredths) \div Max(1, depth)) * Abs(action)

(***************************************************************************)
(* MARKET LOGIC                                                            *)
(***************************************************************************)
\* LinearSpread.valueFor: the pushed history and the returned cost
valueFor(zetaHistory, action, depth, resilience) ==
  LET prevZeta == Last(zetaHistory)
      newZeta == DecayFull(resilience, prevZeta) + Impact(depth, action)
  IN [zetaHistory |-> Append(zetaHistory, newZeta),
      cost |-> newZeta * Abs(action)]

\* mutant: the friction cost is credited, not charged
executeTrade_AddsFriction(action, price, frictionCost) ==
  (-action) * price * Hundredths + frictionCost

\* executeTrade: cashChange in hundredths
executeTrade(action, price, frictionCost) ==
  (-action) * price * Hundredths - frictionCost

calculateWealth(cash, inventory, price) ==
  cash + inventory * price * Hundredths

\* mutant: validates the wealth before the trade, not after it
validateTrade_Before(currentCash, currentInventory, action, price, frictionCost) ==
  calculateWealth(currentCash, currentInventory, price) >= 0

\* mutant: a trade that leaves wealth exactly 0 is refused
validateTrade_Strict(currentCash, currentInventory, action, price, frictionCost) ==
  currentCash + (-action) * price * Hundredths - frictionCost
    + (currentInventory + action) * price * Hundredths > 0

validateTrade(currentCash, currentInventory, action, price, frictionCost) ==
  LET cashChange == executeTrade(action, price, frictionCost)
      newCash == currentCash + cashChange
      newInventory == currentInventory + action
      newWealth == calculateWealth(newCash, newInventory, price)
  IN newWealth >= 0

\* calculateAIAction with c0 = 1.88 = 47/25, depthExponent = 1/3 and
\* threshold = 0.5, computed case by case as IEEE arithmetic does:
\*   depth = 0     : 1/depth = Infinity, base = -Infinity, pow = Infinity,
\*                   rawAction = -c0*pd*Infinity (NaN when pd = 0)
\*   0 < depth < 1 : base < 0, pow = NaN, the comparison is false
\*   depth = 1     : base = 0, pow = 0, rawAction = 0
\*   otherwise     : |rawAction| >= 1/2  iff
\*                   (47/25)^3 * |pd|^3 * |1 - 1/depth| >= 1/8
calculateAIAction(priceDeviation, depth) ==
  IF depth = 0 THEN -Sign(priceDeviation)
  ELSE IF depth > 0 /\ depth < 10 THEN 0
  ELSE IF depth = 10 THEN 0
  ELSE LET cube == Pow(Abs(priceDeviation), 3)
           lhs == cube * Abs(depth - 10)
           \* ceil(25^3 * |depth| / (8 * 47^3))
           rhs == (15625 * Abs(depth) + 830583) \div 830584
       IN IF lhs >= rhs THEN -Sign(priceDeviation) ELSE 0

\* mutant: the rate has the sign of the inventory
calculateLiquidationRate_Positive(inventory, liquidationPeriod) ==
  IF liquidationPeriod <= 0 THEN [num |-> 0, den |-> 1]
  ELSE [num |-> inventory, den |-> liquidationPeriod]

\* calculateLiquidationRate: the rational -inventory/liquidationPeriod
calculateLiquidationRate(inventory, liquidationPeriod) ==
  IF liquidationPeriod <= 0 THEN [num |-> 0, den |-> 1]
  ELSE [num |-> -inventory, den |-> liquidationPeriod]

\* mutant: no overshoot guard
calculateLiquidationAction_NG(initialInv, currentInventory, rate, stepsElapsed) ==
  LET diffNum == initialInv * rate.den + rate.num * stepsElapsed
                   - currentInventory * rate.den
  IN Round(diffNum, rate.den)

calculateLiquidationAction(initialInv, currentInventory, rate, stepsElapsed) ==
  LET \* targetInventory - currentInventory as a fraction over rate.den
      diffNum == initialInv * rate.den + rate.num * stepsElapsed
                   - currentInventory * rate.den
      desiredAction == Round(diffNum, rate.den)
  IN IF desiredAction = 0 THEN 0
     ELSE IF currentInventory # 0
             /\ Sign(currentInventory) # Sign(currentInventory + desiredAction)
          THEN -currentInventory
          ELSE desiredAction

(***************************************************************************)
(* DATA LOADER: the loaded CSV data, one pattern per trajectory id,        *)
(* repeated cyclically up to TrajLen points                                *)
(***************************************************************************)
TrajectoryIds == {1, 2, 3, 4, 5}

\* trajectories that reach CONFIG.initialTerminalTime: 6 has exactly
\* initialTerminalTime + 1 points, 7 has more, 8 covers two candles
LongTrajectoryIds == {6, 7, 8}

\* currentTrajectoryId of a session without a trajectory (null, and the
\* undefined selectRandomTrajectory returns for data without a trajectory)
NoTrajectoryId == 0

\* loadCSVData: null when the fetch or the parse fails, otherwise the
\* trajectories grouped by id (none for a file without a data row)
NoCsvData == [loaded |-> FALSE, ids |-> {}]

LoadedCsvData(ids) == [loaded |-> TRUE, ids |-> ids]

\* selectRandomTrajectory: the ids it may return
selectRandomTrajectory(trajectories) ==
  IF trajectories.ids = {} THEN {NoTrajectoryId} ELSE trajectories.ids

PricePattern(id) ==
  CASE id = 1 -> <<100, 101, 210, 100>>
    [] id = 2 -> <<100, 30, 80, 60>>
    [] id = 3 -> <<100, 120, 90, 100>>
    [] id = 4 -> <<100, 5>>
    [] id = 6 -> <<100, 101, 99, 102>>
    [] id = 7 -> <<100, 90, 110>>
    [] OTHER  -> <<100>>

\* tenths: 50 is depth 5.0, 1 is depth 0.1, 0 is depth 0
DepthPattern(id) ==
  CASE id = 1 -> <<50, 50, 20, 50>>
    [] id = 2 -> <<1, 1, 1, 0>>
    [] id = 3 -> <<10, 5, 10, 20>>
    [] id = 4 -> <<1, 1>>
    [] id = 7 -> <<50, 20>>
    [] OTHER  -> <<50>>

ResiliencePattern(id) ==
  CASE id = 1 -> <<0, 1, 0, 1>>
    [] id = 2 -> <<0, 0, 1, 0>>
    [] id = 3 -> <<1, 0, 0, 1>>
    [] id = 4 -> <<0, 0>>
    [] id = 6 -> <<0, 1>>
    [] OTHER  -> <<0>>

\* trajectories 1..3 have TrajLen points, 4 has two and 5 a single one
TrajectoryPoints(id) ==
  CASE id = 4 -> 2
    [] id = 5 -> 1
    [] id = 6 -> initialTerminalTime + 1
    [] id = 7 -> initialTerminalTime + 1 + ExtraPoints
    [] id = 8 -> 2 * TrajLen
    [] OTHER  -> TrajLen

Cyclic(pattern, n) == [i \in 1..n |-> pattern[((i - 1) % Len(pattern)) + 1]]

\* extractTrajectory: the three series of one trajectory of the data (the
\* callers test trajectoryId \in csvData.ids for its null result)
extractTrajectory(trajectoryId) ==
  [assetPrice |-> Cyclic(PricePattern(trajectoryId),
                         TrajectoryPoints(trajectoryId)),
   depth      |-> Cyclic(DepthPattern(trajectoryId),
                         TrajectoryPoints(trajectoryId)),
   resilience |-> Cyclic(ResiliencePattern(trajectoryId),
                         TrajectoryPoints(trajectoryId))]

(***************************************************************************)
(* GAME STATE                                                              *)
(***************************************************************************)
createGameState ==
  [currentTime |-> 0,
   currentZetaTime |-> 0,
   lastTradeZetaTime |-> NoTradeZetaTime,
   terminalTime |-> initialTerminalTime,
   assetPrice |-> << >>,
   depthSeries |-> << >>,
   resilienceSeries |-> << >>,
   zetaSeries |-> <<0>>,
   currentPrice |-> 0,
   currentDepth |-> 0,
   currentResilience |-> 0,
   csvData |-> NoCsvData,
   currentTrajectoryId |-> NoTrajectoryId,
   cash |-> commonCash * Hundredths,
   inventory |-> initialInventory,
   pnl |-> 0,
   playerTrades |-> << >>,
   linearSpread |-> <<0>>,
   aiCash |-> commonCash * Hundredths,
   aiInventory |-> initialInventory,
   aiPnl |-> 0,
   aiTrades |-> << >>,
   aiLinearSpread |-> <<0>>,
   liquidationStartTime |-> 0,
   isInLiquidationPhase |-> FALSE,
   playerInventoryAtLiquidationStart |-> 0,
   aiInventoryAtLiquidationStart |-> 0,
   playerLiquidationRate |-> [num |-> 0, den |-> 1],
   aiLiquidationRate |-> [num |-> 0, den |-> 1],
   liquidationStepsElapsed |-> 0,
   isRunning |-> FALSE,
   isGameOver |-> FALSE,
   gameOverReason |-> ""]

\* mutant: the liquidation fields and the AI log survive a reset
resetGameState_KeepsLiquidation(state) ==
  [state EXCEPT
     !.currentTime = 0,
     !.currentZetaTime = 0,
     !.lastTradeZetaTime = NoTradeZetaTime,
     !.terminalTime = initialTerminalTime,
     !.cash = commonCash * Hundredths,
     !.inventory = initialInventory,
     !.pnl = 0,
     !.playerTrades = << >>,
     !.linearSpread = <<0>>,
     !.zetaSeries = <<0>>,
     !.aiCash = commonCash * Hundredths,
     !.aiInventory = initialInventory,
     !.aiPnl = 0,
     !.aiLinearSpread = <<0>>,
     !.isRunning = FALSE,
     !.isGameOver = FALSE,
     !.gameOverReason = ""]

resetGameState(state) ==
  [state EXCEPT
     !.currentTime = 0,
     !.currentZetaTime = 0,
     !.lastTradeZetaTime = NoTradeZetaTime,
     !.terminalTime = initialTerminalTime,
     !.cash = commonCash * Hundredths,
     !.inventory = initialInventory,
     !.pnl = 0,
     !.playerTrades = << >>,
     !.linearSpread = <<0>>,
     !.zetaSeries = <<0>>,
     !.aiCash = commonCash * Hundredths,
     !.aiInventory = initialInventory,
     !.aiPnl = 0,
     !.aiTrades = << >>,
     !.aiLinearSpread = <<0>>,
     !.liquidationStartTime = 0,
     !.isInLiquidationPhase = FALSE,
     !.playerInventoryAtLiquidationStart = 0,
     !.aiInventoryAtLiquidationStart = 0,
     !.playerLiquidationRate = [num |-> 0, den |-> 1],
     !.aiLiquidationRate = [num |-> 0, den |-> 1],
     !.liquidationStepsElapsed = 0,
     !.isRunning = FALSE,
     !.isGameOver = FALSE,
     !.gameOverReason = ""]

recomputePnL(state) ==
  [state EXCEPT !.pnl = state.inventory * state.currentPrice * Hundredths
                          + state.cash]

\* JavaScript arrays are 0-based: assetPrice[idx] is the (idx+1)-th element
updateFromTime(state) ==
  LET idx == Min(state.currentTime, state.terminalTime)
  IN recomputePnL([state EXCEPT
       !.currentPrice = state.assetPrice[idx + 1],
       !.currentDepth = state.depthSeries[idx + 1],
       !.currentResilience = state.resilienceSeries[idx + 1]])

loadTrajectoryData(state, trajectoryData) ==
  [state EXCEPT !.assetPrice = trajectoryData.assetPrice,
                !.depthSeries = trajectoryData.depth,
                !.resilienceSeries = trajectoryData.resilience]

\* mutant: keeps the requested terminal time when the data is shorter
truncateToTerminalTime_NoClamp(state) ==
  LET csvLength == Len(state.assetPrice) - 1
  IN IF state.terminalTime < csvLength
       THEN [state EXCEPT
               !.assetPrice = SubSeq(state.assetPrice, 1, state.terminalTime + 1),
               !.depthSeries = SubSeq(state.depthSeries, 1, state.terminalTime + 1),
               !.resilienceSeries =
                  SubSeq(state.resilienceSeries, 1, state.terminalTime + 1)]
     ELSE state

truncateToTerminalTime(state) ==
  LET csvLength == Len(state.assetPrice) - 1
  IN IF state.terminalTime > csvLength
       THEN [state EXCEPT !.terminalTime = csvLength]
     ELSE IF state.terminalTime < csvLength
       THEN [state EXCEPT
               !.assetPrice = SubSeq(state.assetPrice, 1, state.terminalTime + 1),
               !.depthSeries = SubSeq(state.depthSeries, 1, state.terminalTime + 1),
               !.resilienceSeries =
                  SubSeq(state.resilienceSeries, 1, state.terminalTime + 1)]
     ELSE state

\* Math.floor(terminalTime * 0.8)
initializeLiquidation(state) ==
  [state EXCEPT !.liquidationStartTime =
     (state.terminalTime * tradingHorizonFractionNum)
        \div tradingHorizonFractionDen]

\* initializeGame, with the trajectory selectRandomTrajectory picked; it
\* returns early when extractTrajectory finds no such trajectory
initializeGame(state, trajectoryId) ==
  LET s1 == [state EXCEPT !.currentTrajectoryId = trajectoryId]
  IN IF trajectoryId \notin state.csvData.ids THEN s1
     ELSE updateFromTime(initializeLiquidation(truncateToTerminalTime(
            loadTrajectoryData(s1, extractTrajectory(trajectoryId)))))

(***************************************************************************)
(* GAME LOGIC                                                              *)
(***************************************************************************)
\* Math.floor(state.currentTime / CONFIG.pointsPerCandle)
CandleIndex(state) == state.currentTime \div pointsPerCandle

TradeEntry(state, candleIndex, action) ==
  [candleIndex |-> candleIndex, action |-> action,
   time |-> state.currentTime, zetaTime |-> state.currentZetaTime]

\* mutant: counts the micro step the trade is about to take
zetaStepsSinceLastTrade_OffByOne(state) ==
  state.currentZetaTime + 1 - state.lastTradeZetaTime

\* executePlayerTrade, const zetaStepsSinceLastTrade
zetaStepsSinceLastTrade(state) ==
  state.currentZetaTime - state.lastTradeZetaTime

\* mutant: an accepted trade does not record its micro time
executePlayerTrade_NoStamp(state, action) ==
  IF state.isGameOver \/ ~state.isRunning
    THEN [state |-> state, ok |-> FALSE]
  ELSE IF zetaStepsSinceLastTrade(state) < minZetaStepsBetweenTrades
    THEN [state |-> state, ok |-> FALSE]
  ELSE
    LET friction == valueFor(state.linearSpread, action, state.currentDepth,
                             state.currentResilience)
        s1 == [state EXCEPT !.linearSpread = friction.zetaHistory]
    IN IF ~validateTrade(s1.cash, s1.inventory, action, s1.currentPrice,
                         friction.cost)
         THEN [state |-> s1, ok |-> FALSE]
       ELSE
         LET s2 == [s1 EXCEPT
                      !.cash = s1.cash + executeTrade(action, s1.currentPrice,
                                                      friction.cost),
                      !.inventory = s1.inventory + action,
                      !.currentZetaTime = s1.currentZetaTime + 1]
             s4 == [s2 EXCEPT
                      !.playerTrades = Append(s2.playerTrades,
                          TradeEntry(s2, CandleIndex(state), action)),
                      !.zetaSeries = Append(s2.zetaSeries,
                          DecayMicro(state.currentResilience,
                                     Last(s2.zetaSeries))
                            + Impact(state.currentDepth, action)),
                      !.pnl = calculateWealth(s2.cash, s2.inventory,
                                              s2.currentPrice)]
         IN [state |-> IF s4.pnl <= 0
                         THEN [s4 EXCEPT !.isRunning = FALSE,
                                         !.isGameOver = TRUE,
                                         !.gameOverReason = "broke"]
                         ELSE s4,
             ok |-> TRUE]

\* executePlayerTrade: the resulting state and the returned boolean
executePlayerTrade(state, action) ==
  IF state.isGameOver \/ ~state.isRunning
    THEN [state |-> state, ok |-> FALSE]
  ELSE IF zetaStepsSinceLastTrade(state) < minZetaStepsBetweenTrades
    THEN [state |-> state, ok |-> FALSE]
  ELSE
    LET currentCandleIndex == CandleIndex(state)
        depth == state.currentDepth
        resilience == state.currentResilience
        friction == valueFor(state.linearSpread, action, depth, resilience)
        frictionCost == friction.cost
        \* state.linearSpread.valueFor has pushed the new zeta
        s1 == [state EXCEPT !.linearSpread = friction.zetaHistory]
    IN IF ~validateTrade(s1.cash, s1.inventory, action, s1.currentPrice,
                         frictionCost)
         THEN [state |-> s1, ok |-> FALSE]
       ELSE
         LET cashChange == executeTrade(action, s1.currentPrice, frictionCost)
             s2 == [s1 EXCEPT !.cash = s1.cash + cashChange,
                              !.inventory = s1.inventory + action,
                              !.currentZetaTime = s1.currentZetaTime + 1]
             s3 == [s2 EXCEPT
                      !.playerTrades = Append(s2.playerTrades,
                          TradeEntry(s2, currentCandleIndex, action)),
                      !.lastTradeZetaTime = s2.currentZetaTime]
             prevZeta == Last(s3.zetaSeries)
             newZeta == DecayMicro(resilience, prevZeta) + Impact(depth, action)
             s4 == [s3 EXCEPT
                      !.zetaSeries = Append(s3.zetaSeries, newZeta),
                      !.pnl = calculateWealth(s3.cash, s3.inventory,
                                              s3.currentPrice)]
             s5 == IF s4.pnl <= 0
                     THEN [s4 EXCEPT !.isRunning = FALSE,
                                     !.isGameOver = TRUE,
                                     !.gameOverReason = "broke"]
                     ELSE s4
         IN [state |-> s5, ok |-> TRUE]

executeAITradeAction(state, action, candleIndex) ==
  LET depth == state.currentDepth
      resilience == state.currentResilience
      friction == valueFor(state.aiLinearSpread, action, depth, resilience)
      frictionCost == friction.cost
      s1 == [state EXCEPT !.aiLinearSpread = friction.zetaHistory]
  IN IF ~validateTrade(s1.aiCash, s1.aiInventory, action, s1.currentPrice,
                       frictionCost)
       THEN s1
     ELSE
       LET cashChange == executeTrade(action, s1.currentPrice, frictionCost)
           s2 == [s1 EXCEPT !.aiCash = s1.aiCash + cashChange,
                            !.aiInventory = s1.aiInventory + action]
       IN [s2 EXCEPT
             !.aiPnl = calculateWealth(s2.aiCash, s2.aiInventory,
                                       s2.currentPrice),
             !.aiTrades = Append(s2.aiTrades,
                                 TradeEntry(s2, candleIndex, action))]

\* mutant: the policy is consulted on every tick of a candle
processAITrade_NoCandleCheck(state) ==
  LET priceDeviation == state.assetPrice[state.currentTime + 1]
      action == calculateAIAction(priceDeviation, state.currentDepth)
  IN IF action # 0
       THEN executeAITradeAction(state, action, CandleIndex(state))
       ELSE state

\* processAITrade (CONFIG.aiAgent.enabled is true)
processAITrade(state) ==
  LET currentCandleIndex == CandleIndex(state)
      alreadyTraded == \E i \in 1..Len(state.aiTrades) :
                          state.aiTrades[i].candleIndex = currentCandleIndex
  IN IF alreadyTraded THEN state
     ELSE LET priceDeviation == state.assetPrice[state.currentTime + 1]
              action == calculateAIAction(priceDeviation, state.currentDepth)
          IN IF action # 0
               THEN executeAITradeAction(state, action, currentCandleIndex)
               ELSE state

\* mutant: the flag follows "currentTime is the liquidation start time"
checkLiquidationEntry_OnlyAtStart(state) ==
  IF state.currentTime = state.liquidationStartTime
    THEN LET liquidationPeriod ==
               state.terminalTime - state.liquidationStartTime
         IN [state EXCEPT
               !.isInLiquidationPhase = TRUE,
               !.playerInventoryAtLiquidationStart = state.inventory,
               !.aiInventoryAtLiquidationStart = state.aiInventory,
               !.playerLiquidationRate = calculateLiquidationRate(
                  state.inventory, liquidationPeriod),
               !.aiLiquidationRate = calculateLiquidationRate(
                  state.aiInventory, liquidationPeriod)]
    ELSE [state EXCEPT !.isInLiquidationPhase = FALSE]

\* mutant: with no period left the whole snapshot is scheduled at once
checkLiquidationEntry_ZeroPeriodDump(state) ==
  IF state.currentTime >= state.liquidationStartTime
     /\ ~state.isInLiquidationPhase
    THEN LET liquidationPeriod ==
               state.terminalTime - state.liquidationStartTime
         IN [state EXCEPT
               !.isInLiquidationPhase = TRUE,
               !.playerInventoryAtLiquidationStart = state.inventory,
               !.aiInventoryAtLiquidationStart = state.aiInventory,
               !.playerLiquidationRate =
                  [num |-> -state.inventory, den |-> Max(1, liquidationPeriod)],
               !.aiLiquidationRate =
                  [num |-> -state.aiInventory, den |-> Max(1, liquidationPeriod)]]
    ELSE state

\* mutant: the phase is entered one tick late (strict comparison)
checkLiquidationEntry_Late(state) ==
  IF state.currentTime > state.liquidationStartTime
     /\ ~state.isInLiquidationPhase
    THEN LET liquidationPeriod ==
               state.terminalTime - state.liquidationStartTime
         IN [state EXCEPT
               !.isInLiquidationPhase = TRUE,
               !.playerInventoryAtLiquidationStart = state.inventory,
               !.aiInventoryAtLiquidationStart = state.aiInventory,
               !.playerLiquidationRate =
                  IF liquidationPeriod > 0
                    THEN [num |-> -state.inventory, den |-> liquidationPeriod]
                    ELSE state.playerLiquidationRate,
               !.aiLiquidationRate =
                  IF liquidationPeriod > 0
                    THEN [num |-> -state.aiInventory, den |-> liquidationPeriod]
                    ELSE state.aiLiquidationRate]
    ELSE state

checkLiquidationEntry(state) ==
  IF state.currentTime >= state.liquidationStartTime
     /\ ~state.isInLiquidationPhase
    THEN LET liquidationPeriod ==
               state.terminalTime - state.liquidationStartTime
             s1 == [state EXCEPT
                      !.isInLiquidationPhase = TRUE,
                      !.playerInventoryAtLiquidationStart = state.inventory,
                      !.aiInventoryAtLiquidationStart = state.aiInventory]
         IN IF liquidationPeriod > 0
              THEN [s1 EXCEPT
                      !.playerLiquidationRate = calculateLiquidationRate(
                         s1.playerInventoryAtLiquidationStart, liquidationPeriod),
                      !.aiLiquidationRate = calculateLiquidationRate(
                         s1.aiInventoryAtLiquidationStart, liquidationPeriod)]
              ELSE s1
    ELSE state

\* mutant: a liquidation trade that would leave negative wealth is dropped
executeLiquidationTrade_Validated(state, action, candleIndex, participant) ==
  LET depth == state.currentDepth
      resilience == state.currentResilience
  IN IF participant = "player"
       THEN
         LET friction == valueFor(state.linearSpread, action, depth, resilience)
             cashChange == (-action) * state.currentPrice * Hundredths
                             - friction.cost
             s1 == [state EXCEPT
                      !.linearSpread = friction.zetaHistory,
                      !.cash = state.cash + cashChange,
                      !.inventory = state.inventory + action,
                      !.playerTrades = Append(state.playerTrades,
                          TradeEntry(state, candleIndex, action))]
             newZeta == DecayFull(resilience, Last(s1.zetaSeries))
                          + Impact(depth, action)
         IN IF s1.cash + s1.inventory * s1.currentPrice * Hundredths < 0
              THEN [state EXCEPT !.linearSpread = friction.zetaHistory]
              ELSE [s1 EXCEPT
                      !.pnl = s1.cash + s1.inventory * s1.currentPrice * Hundredths,
                      !.zetaSeries = Append(s1.zetaSeries, newZeta)]
       ELSE
         LET friction == valueFor(state.aiLinearSpread, action, depth,
                                  resilience)
             cashChange == (-action) * state.currentPrice * Hundredths
                             - friction.cost
             s1 == [state EXCEPT
                      !.aiLinearSpread = friction.zetaHistory,
                      !.aiCash = state.aiCash + cashChange,
                      !.aiInventory = state.aiInventory + action,
                      !.aiTrades = Append(state.aiTrades,
                          TradeEntry(state, candleIndex, action))]
         IN IF s1.aiCash + s1.aiInventory * s1.currentPrice * Hundredths < 0
              THEN [state EXCEPT !.aiLinearSpread = friction.zetaHistory]
              ELSE [s1 EXCEPT
                      !.aiPnl = s1.aiCash
                                  + s1.aiInventory * s1.currentPrice * Hundredths]

executeLiquidationTrade(state, action, candleIndex, participant) ==
  LET depth == state.currentDepth
      resilience == state.currentResilience
  IN IF participant = "player"
       THEN
         LET friction == valueFor(state.linearSpread, action, depth, resilience)
             cashChange == executeTrade(action, state.currentPrice,
                                        friction.cost)
             s1 == [state EXCEPT
                      !.linearSpread = friction.zetaHistory,
                      !.cash = state.cash + cashChange,
                      !.inventory = state.inventory + action,
                      !.playerTrades = Append(state.playerTrades,
                          TradeEntry(state, candleIndex, action))]
             prevZeta == Last(s1.zetaSeries)
             newZeta == DecayFull(resilience, prevZeta) + Impact(depth, action)
         IN [s1 EXCEPT
               !.pnl = calculateWealth(s1.cash, s1.inventory, s1.currentPrice),
               !.zetaSeries = Append(s1.zetaSeries, newZeta)]
       ELSE
         LET friction == valueFor(state.aiLinearSpread, action, depth,
                                  resilience)
             cashChange == executeTrade(action, state.currentPrice,
                                        friction.cost)
             s1 == [state EXCEPT
                      !.aiLinearSpread = friction.zetaHistory,
                      !.aiCash = state.aiCash + cashChange,
                      !.aiInventory = state.aiInventory + action,
                      !.aiTrades = Append(state.aiTrades,
                          TradeEntry(state, candleIndex, action))]
         IN [s1 EXCEPT
               !.aiPnl = calculateWealth(s1.aiCash, s1.aiInventory,
                                         s1.currentPrice)]

\* the player's branch of processLiquidation
\* mutant: a flat player is still handed to the schedule
processPlayerLiquidation_NoFlatCheck(state, candleIndex) ==
  IF state.playerInventoryAtLiquidationStart # 0
    THEN LET action == calculateLiquidationAction(
                         state.playerInventoryAtLiquidationStart,
                         state.inventory,
                         state.playerLiquidationRate,
                         state.liquidationStepsElapsed)
         IN IF action # 0
              THEN executeLiquidationTrade(state, action, candleIndex, "player")
              ELSE state
    ELSE state

processPlayerLiquidation(state, candleIndex) ==
  IF state.playerInventoryAtLiquidationStart # 0 /\ state.inventory # 0
    THEN LET action == calculateLiquidationAction(
                         state.playerInventoryAtLiquidationStart,
                         state.inventory,
                         state.playerLiquidationRate,
                         state.liquidationStepsElapsed)
         IN IF action # 0
              THEN executeLiquidationTrade(state, action, candleIndex, "player")
              ELSE state
    ELSE state

\* the AI's branch of processLiquidation
processAILiquidation(state, candleIndex) ==
  IF state.aiInventoryAtLiquidationStart # 0 /\ state.aiInventory # 0
    THEN LET action == calculateLiquidationAction(
                         state.aiInventoryAtLiquidationStart,
                         state.aiInventory,
                         state.aiLiquidationRate,
                         state.liquidationStepsElapsed)
         IN IF action # 0
              THEN executeLiquidationTrade(state, action, candleIndex, "ai")
              ELSE state
    ELSE state

\* mutant: only the player's position is unwound
processLiquidation_PlayerOnly(state) ==
  processPlayerLiquidation(
    [state EXCEPT
       !.liquidationStepsElapsed = state.liquidationStepsElapsed + 1],
    CandleIndex(state))

processLiquidation(state) ==
  LET currentCandleIndex == CandleIndex(state)
      s1 == [state EXCEPT
               !.liquidationStepsElapsed = state.liquidationStepsElapsed + 1]
  IN processAILiquidation(processPlayerLiquidation(s1, currentCandleIndex),
                          currentCandleIndex)

\* mutant: the terminal time is tested before the wealth
checkGameOver_TimeFirst(state) ==
  LET currentWealth ==
        calculateWealth(state.cash, state.inventory, state.currentPrice)
  IN IF state.currentTime >= state.terminalTime
       THEN [state EXCEPT !.isRunning = FALSE, !.isGameOver = TRUE,
                          !.gameOverReason = "time_up"]
     ELSE IF currentWealth <= 0
       THEN [state EXCEPT !.isRunning = FALSE, !.isGameOver = TRUE,
                          !.gameOverReason = "broke"]
     ELSE state

\* mutant: the session is not ended at the terminal time
checkGameOver_NoTimeUp(state) ==
  LET currentWealth ==
        calculateWealth(state.cash, state.inventory, state.currentPrice)
  IN IF currentWealth <= 0
       THEN [state EXCEPT !.isRunning = FALSE, !.isGameOver = TRUE,
                          !.gameOverReason = "broke"]
     ELSE state

\* mutant: the session keeps running when the time is up
checkGameOver_KeepsRunning(state) ==
  LET currentWealth ==
        calculateWealth(state.cash, state.inventory, state.currentPrice)
  IN IF currentWealth <= 0
       THEN [state EXCEPT !.isRunning = FALSE, !.isGameOver = TRUE,
                          !.gameOverReason = "broke"]
     ELSE IF state.currentTime >= state.terminalTime
       THEN [state EXCEPT !.isGameOver = TRUE,
                          !.gameOverReason = "time_up"]
     ELSE state

checkGameOver(state) ==
  LET currentWealth ==
        calculateWealth(state.cash, state.inventory, state.currentPrice)
  IN IF currentWealth <= 0
       THEN [state EXCEPT !.isRunning = FALSE, !.isGameOver = TRUE,
                          !.gameOverReason = "broke"]
     ELSE IF state.currentTime >= state.terminalTime
       THEN [state EXCEPT !.isRunning = FALSE, !.isGameOver = TRUE,
                          !.gameOverReason = "time_up"]
     ELSE state

\* the while loop of advanceTime: one decayed zeta per micro step
RECURSIVE ZetaDecayLoop(_, _)
ZetaDecayLoop(state, targetZetaTime) ==
  IF state.currentZetaTime < targetZetaTime
    THEN ZetaDecayLoop(
           [state EXCEPT
              !.currentZetaTime = state.currentZetaTime + 1,
              !.zetaSeries = Append(state.zetaSeries,
                 DecayMicro(state.currentResilience, Last(state.zetaSeries)))],
           targetZetaTime)
    ELSE state

\* mutant: the market clock is stepped twice per call
advanceTime_DoubleStep(state) ==
  IF state.currentTime >= state.terminalTime \/ state.isGameOver
    THEN state
  ELSE
    LET s1 == updateFromTime([state EXCEPT
                                !.currentTime = state.currentTime + 2])
        targetZetaTime == s1.currentTime * zetaStepsPerMarketStep
        s2 == ZetaDecayLoop(s1, targetZetaTime)
        s3 == checkLiquidationEntry(s2)
        s4 == IF s3.isInLiquidationPhase
                THEN processLiquidation(s3)
                ELSE processAITrade(s3)
    IN checkGameOver(s4)

\* mutant: the micro clock is not caught up with the market clock
advanceTime_NoZetaCatchUp(state) ==
  IF state.currentTime >= state.terminalTime \/ state.isGameOver
    THEN state
  ELSE
    LET s1 == updateFromTime([state EXCEPT
                                !.currentTime = state.currentTime + 1])
        s3 == checkLiquidationEntry(s1)
        s4 == IF s3.isInLiquidationPhase
                THEN processLiquidation(s3)
                ELSE processAITrade(s3)
    IN checkGameOver(s4)

\* mutant: the AI policy is consulted in the liquidation phase as well
advanceTime_PolicyInLiquidation(state) ==
  IF state.currentTime >= state.terminalTime \/ state.isGameOver
    THEN state
  ELSE
    LET s1 == updateFromTime([state EXCEPT
                                !.currentTime = state.currentTime + 1])
        targetZetaTime == s1.currentTime * zetaStepsPerMarketStep
        s2 == ZetaDecayLoop(s1, targetZetaTime)
        s3 == checkLiquidationEntry(s2)
        s4 == IF s3.isInLiquidationPhase
                THEN processAITrade(processLiquidation(s3))
                ELSE processAITrade(s3)
    IN checkGameOver(s4)

advanceTime(state) ==
  IF state.currentTime >= state.terminalTime \/ state.isGameOver
    THEN state
  ELSE
    LET s1 == updateFromTime([state EXCEPT
                                !.currentTime = state.currentTime + 1])
        targetZetaTime == s1.currentTime * zetaStepsPerMarketStep
        s2 == ZetaDecayLoop(s1, targetZetaTime)
        s3 == checkLiquidationEntry(s2)
        s4 == IF s3.isInLiquidationPhase
                THEN processLiquidation(s3)
                ELSE processAITrade(s3)
    IN checkGameOver(s4)

(***************************************************************************)
(* UI and MAIN GAME ORCHESTRATION                                          *)
(***************************************************************************)
\* mutant: BUY and SELL stay clickable in the liquidation phase
checkButtonClick_NoLiquidationCheck(label, state) ==
  IF state.isGameOver THEN label = "RESET"
  ELSE IF label = "START" THEN ~state.isRunning
  ELSE IF label \in {"BUY", "SELL"} THEN state.isRunning
  ELSE TRUE

\* mutant: no game-over branch, START stays clickable in a session that
\* is over
checkButtonClick_NoGameOverCheck(label, state) ==
  IF label = "START" THEN ~state.isRunning
  ELSE IF label \in {"BUY", "SELL"}
    THEN state.isRunning /\ ~state.isInLiquidationPhase
  ELSE TRUE

\* checkButtonClick for a click inside the button `label`: is it clickable
checkButtonClick(label, state) ==
  IF state.isGameOver THEN label = "RESET"
  ELSE IF label = "START" THEN ~state.isRunning
  ELSE IF label \in {"BUY", "SELL"}
    THEN state.isRunning /\ ~state.isInLiquidationPhase
  ELSE TRUE

\* handleReset, with the trajectory selectRandomTrajectory picked; it
\* returns early without csvData and without the trajectory
handleReset(state, trajectoryId) ==
  LET s0 == [state EXCEPT !.isRunning = FALSE]
      s1 == [resetGameState(s0) EXCEPT !.currentTrajectoryId = trajectoryId]
      s2 == loadTrajectoryData(s1, extractTrajectory(trajectoryId))
      s3 == [s2 EXCEPT !.terminalTime = initialTerminalTime]
  IN IF ~state.csvData.loaded THEN s0
     ELSE IF trajectoryId \notin state.csvData.ids THEN s1
     ELSE updateFromTime(initializeLiquidation(truncateToTerminalTime(s3)))

\* handleStart
handleStart(state, trajectoryId) ==
  IF state.currentTime >= state.terminalTime
    THEN handleReset(state, trajectoryId)
    ELSE [state EXCEPT !.isRunning = TRUE]

\* window.setup: the game state it leaves for the data loadCSVData
\* returned and the trajectory selectRandomTrajectory picked
setup(csvData, trajectoryId) ==
  LET state == [createGameState EXCEPT !.csvData = csvData]
  IN IF ~csvData.loaded THEN state
     ELSE initializeGame(state, trajectoryId)

\* the sketch after window.setup: buttons is assigned unless the data is
\* null, noLoop() was called unless a trajectory was loaded
AfterSetup(csvData) ==
  /\ \E id \in selectRandomTrajectory(csvData) :
       /\ gameState = setup(csvData, id)
       /\ looping = (csvData.loaded /\ id \in csvData.ids)
  /\ buttons = csvData.loaded
  /\ lastOp = [op |-> "setup", result |-> "done"]

Init == AfterSetup(LoadedCsvData(TrajectoryIds))

\* window.mousePressed on the START button (checkButtonClick throws while
\* buttons is undefined)
ClickStart ==
  /\ \E id \in selectRandomTrajectory(gameState.csvData) :
       IF buttons /\ checkButtonClick("START", gameState)
         THEN /\ gameState' = handleStart(gameState, id)
              /\ lastOp' = [op |-> "START",
                            result |-> IF gameState.currentTime
                                            >= gameState.terminalTime
                                         THEN "reset" ELSE "started"]
         ELSE /\ gameState' = gameState
              /\ lastOp' = [op |-> "START", result |-> "ignored"]
  /\ UNCHANGED <<buttons, looping>>

\* window.mousePressed on the RESET button
ClickReset ==
  /\ \E id \in selectRandomTrajectory(gameState.csvData) :
       IF buttons /\ checkButtonClick("RESET", gameState)
         THEN /\ gameState' = handleReset(gameState, id)
              /\ lastOp' = [op |-> "RESET", result |-> "reset"]
         ELSE /\ gameState' = gameState
              /\ lastOp' = [op |-> "RESET", result |-> "ignored"]
  /\ UNCHANGED <<buttons, looping>>

\* window.mousePressed inside the reset button of the game-over box
ClickGameOverReset ==
  /\ \E id \in selectRandomTrajectory(gameState.csvData) :
       IF gameState.isGameOver
         THEN /\ gameState' = handleReset(gameState, id)
              /\ lastOp' = [op |-> "GAMEOVER_RESET", result |-> "reset"]
         ELSE /\ gameState' = gameState
              /\ lastOp' = [op |-> "GAMEOVER_RESET", result |-> "ignored"]
  /\ UNCHANGED <<buttons, looping>>

\* window.mousePressed on BUY (action +1) or SELL (action -1)
ClickTrade(label, action) ==
  /\ Len(gameState.linearSpread) < MaxZetaHistory
  /\ IF buttons /\ checkButtonClick(label, gameState)
       THEN LET r == executePlayerTrade(gameState, action)
            IN /\ gameState' = r.state
               /\ lastOp' = [op |-> label,
                             result |-> IF r.ok THEN "accepted"
                                                ELSE "rejected"]
       ELSE /\ gameState' = gameState
            /\ lastOp' = [op |-> label, result |-> "ignored"]
  /\ UNCHANGED <<buttons, looping>>

ClickBuy == ClickTrade("BUY", 1)

ClickSell == ClickTrade("SELL", -1)

\* window.draw on a frame with frameCount % CONFIG.stepFrames = 0; no
\* frame is drawn after noLoop()
Draw ==
  /\ looping
  /\ IF buttons /\ gameState.isRunning /\ ~gameState.isGameOver
       THEN /\ gameState' = advanceTime(gameState)
            /\ lastOp' = [op |-> "advance",
                          result |-> IF gameState.currentTime
                                          >= gameState.terminalTime
                                          \/ gameState.isGameOver
                                       THEN "noop" ELSE "advanced"]
       ELSE /\ gameState' = gameState
            /\ lastOp' = [op |-> "advance", result |-> "noop"]
  /\ UNCHANGED <<buttons, looping>>

Next ==
  \/ ClickStart
  \/ ClickReset
  \/ ClickGameOverReset
  \/ ClickBuy
  \/ ClickSell
  \/ Draw

Spec == Init /\ [][Next]_vars

\* a frame would change the state: the loop runs, and either the session
\* is advanced or the last operation was not already an idle frame
DrawEnabled ==
  /\ looping
  /\ \/ lastOp # [op |-> "advance", result |-> "noop"]
     \/ /\ buttons
        /\ gameState.isRunning
        /\ ~gameState.isGameOver
        /\ gameState.currentTime < gameState.terminalTime

\* weak fairness of Draw, WF_vars(Draw) written out, DrawEnabled being
\* ENABLED <<Draw>>_vars: p5.js calls window.draw on every frame while the
\* loop runs
DrawFairness == []<>(~DrawEnabled) \/ []<><<Draw>>_vars

\* the sketch with a timer that keeps ticking
SpecLive == Init /\ [][Next]_vars /\ DrawFairness

(***************************************************************************)
(* The sketch for every outcome of loading the data: the fetch failed, the *)
(* file held no data row, the trajectories were loaded.                    *)
(***************************************************************************)
InitSetup ==
  \E csvData \in {NoCsvData, LoadedCsvData({}), LoadedCsvData(TrajectoryIds)} :
    AfterSetup(csvData)

SpecSetup == InitSetup /\ [][Next]_vars

(***************************************************************************)
(* The sketch on trajectories as long as CONFIG.initialTerminalTime, left  *)
(* to the timer, START and RESET (the player places no order).             *)
(***************************************************************************)
InitLong == AfterSetup(LoadedCsvData(LongTrajectoryIds))

NextLong ==
  \/ ClickStart
  \/ ClickReset
  \/ ClickGameOverReset
  \/ Draw

SpecLong == InitLong /\ [][NextLong]_vars

(***************************************************************************)
(* Sessions whose liquidation start time is the terminal time, as          *)
(* initializeLiquidation leaves it for a trading horizon fraction of 1:    *)
(* the liquidation period is zero. A reset would restore the configured    *)
(* fraction, so the session is followed to its end only.                   *)
(***************************************************************************)
InitZero ==
  /\ \E id \in {id \in TrajectoryIds : TrajectoryPoints(id) > 1} :
       LET state == setup(LoadedCsvData(TrajectoryIds), id)
       IN gameState =
            [state EXCEPT !.liquidationStartTime = state.terminalTime]
  /\ buttons = TRUE
  /\ looping = TRUE
  /\ lastOp = [op |-> "setup", result |-> "done"]

NextZero ==
  \/ ClickStart
  \/ ClickBuy
  \/ ClickSell
  \/ Draw

SpecZero == InitZero /\ [][NextZero]_vars

(***************************************************************************)
(* The liquidation controller taken alone: processLiquidation applied tick *)
(* after tick to a session that has just entered the liquidation phase     *)
(* with any snapshot, any current inventory and any liquidation period.    *)
(***************************************************************************)
LiqInventories == (-MaxLiqInventory)..MaxLiqInventory

\* the state checkLiquidationEntry leaves for the snapshots i0 (player) and
\* a0 (AI) and the period, with current inventories inv and aiInv
EnteredLiquidation(i0, inv, a0, aiInv, period) ==
  LET base == setup(LoadedCsvData(TrajectoryIds), 1)
  IN [base EXCEPT
        !.isRunning = TRUE,
        !.liquidationStartTime = base.terminalTime - period,
        !.currentTime = base.terminalTime - period,
        !.isInLiquidationPhase = TRUE,
        !.inventory = inv,
        !.aiInventory = aiInv,
        !.playerInventoryAtLiquidationStart = i0,
        !.aiInventoryAtLiquidationStart = a0,
        !.playerLiquidationRate = calculateLiquidationRate(i0, period),
        !.aiLiquidationRate = calculateLiquidationRate(a0, period)]

\* Math.round(targetInventory - currentInventory) of one participant
DesiredAction(i0, inv, rate, stepsElapsed) ==
  Round(i0 * rate.den + rate.num * stepsElapsed - inv * rate.den, rate.den)

\* applying the desired action would take the inventory through zero
WouldCross(inv, desired) ==
  inv # 0 /\ Sign(inv + desired) = -Sign(inv)

InitLiq ==
  /\ \E i0 \in LiqInventories, inv \in LiqInventories,
        a0 \in LiqInventories, aiInv \in LiqInventories,
        period \in 1..MaxLiqPeriod :
       gameState = EnteredLiquidation(i0, inv, a0, aiInv, period)
  /\ lastOp = [op |-> "checkLiquidationEntry", result |-> "entered"]
  /\ buttons = TRUE
  /\ looping = TRUE

\* one call of processLiquidation, for the ticks start .. terminalTime
LiquidationStep ==
  /\ gameState.liquidationStepsElapsed
       <= gameState.terminalTime - gameState.liquidationStartTime
  /\ gameState' = processLiquidation(gameState)
  /\ UNCHANGED <<buttons, looping>>
  /\ lastOp' =
       [op |-> "processLiquidation",
        result |->
          IF gameState.playerInventoryAtLiquidationStart # 0
             /\ WouldCross(gameState.inventory,
                  DesiredAction(gameState.playerInventoryAtLiquidationStart,
                                gameState.inventory,
                                gameState.playerLiquidationRate,
                                gameState.liquidationStepsElapsed + 1))
            THEN "clamped" ELSE "stepped"]

NextLiq == LiquidationStep

SpecLiq == InitLiq /\ [][NextLiq]_vars

(***************************************************************************)
(* The liquidation controller followed from the entry tick: both           *)
(* participants hold their snapshot inventories when the schedule starts   *)
(* and nothing but processLiquidation trades.                              *)
(***************************************************************************)
SchedInventories == (-MaxSchedInventory)..MaxSchedInventory

InitSched ==
  /\ \E i0 \in SchedInventories, a0 \in SchedInventories,
        period \in 1..MaxSchedPeriod :
       gameState = EnteredLiquidation(i0, i0, a0, a0, period)
  /\ lastOp = [op |-> "checkLiquidationEntry", result |-> "entered"]
  /\ buttons = TRUE
  /\ looping = TRUE

NextSched == LiquidationStep

SpecSched == InitSched /\ [][NextSched]_vars

(***************************************************************************)
(* Observations used by the properties                                     *)
(***************************************************************************)
\* the step just taken was a BUY or SELL click with the given outcome
TradeClick(result) ==
  lastOp'.op \in {"BUY", "SELL"} /\ lastOp'.result = result

ClickedAction == IF lastOp'.op = "BUY" THEN 1 ELSE -1

\* the step just taken was an advanceTime call that was not a no-op
Advanced == lastOp'.op = "advance" /\ lastOp'.result = "advanced"

\* the step just taken reset the session
WasReset == lastOp'.result = "reset"

PlayerWealth(state) ==
  state.cash + state.inventory * state.currentPrice * Hundredths

AIWealth(state) ==
  state.aiCash + state.aiInventory * state.currentPrice * Hundredths

(***************************************************************************)
(* C1                                                                      *)
(***************************************************************************)
\* C1: a rejected trade (a player trade rejected by the rate limit or by
\* the wealth validation, an AI trade rejected by the validation) leaves
\* the participant's cash, inventory and LinearSpread zeta history, the
\* trade log and the micro clock as they were before the call.
C1_RejectedTradeChangesNothing ==
  [][ /\ TradeClick("rejected") =>
           /\ gameState'.cash = gameState.cash
           /\ gameState'.inventory = gameState.inventory
           /\ gameState'.linearSpread = gameState.linearSpread
           /\ gameState'.playerTrades = gameState.playerTrades
           /\ gameState'.currentZetaTime = gameState.currentZetaTime
      /\ (Advanced /\ ~gameState'.isInLiquidationPhase
            /\ gameState'.aiTrades = gameState.aiTrades) =>
           /\ gameState'.aiCash = gameState.aiCash
           /\ gameState'.aiInventory = gameState.aiInventory
           /\ gameState'.aiLinearSpread = gameState.aiLinearSpread
    ]_vars

(***************************************************************************)
(* C2                                                                      *)
(***************************************************************************)
\* the wealth the player would have after trading `action` now, at the
\* current price and with the friction cost the player's LinearSpread
\* charges for it
HypotheticalPlayerWealth(state, action) ==
  LET cost == (DecayFull(state.currentResilience, Last(state.linearSpread))
                 + Impact(state.currentDepth, action)) * Abs(action)
  IN (state.cash - action * state.currentPrice * Hundredths - cost)
       + (state.inventory + action) * state.currentPrice * Hundredths

\* C2: after every accepted non-liquidation trade of the player or of the
\* AI the participant's wealth at the trade price is >= 0, and a player
\* trade whose hypothetical post-trade wealth is < 0 is not accepted and
\* moves neither cash nor inventory nor the trade log.
C2_AcceptedTradeKeepsWealthNonNegative ==
  [][ /\ TradeClick("accepted") => PlayerWealth(gameState') >= 0
      /\ (Advanced /\ ~gameState'.isInLiquidationPhase
            /\ Len(gameState'.aiTrades) > Len(gameState.aiTrades)) =>
           AIWealth(gameState') >= 0
      /\ (lastOp'.op \in {"BUY", "SELL"}
            /\ HypotheticalPlayerWealth(gameState, ClickedAction) < 0) =>
           /\ lastOp'.result # "accepted"
           /\ gameState'.cash = gameState.cash
           /\ gameState'.inventory = gameState.inventory
           /\ gameState'.playerTrades = gameState.playerTrades
    ]_vars

\* an accepted player trade that used up the whole wealth
C2_Witness ==
  /\ lastOp.op \in {"BUY", "SELL"}
  /\ lastOp.result = "accepted"
  /\ PlayerWealth(gameState) = 0

(***************************************************************************)
(* C3                                                                      *)
(***************************************************************************)
\* C3: a BUY or SELL click in a state that is in the liquidation phase, or
\* not running, or over, is not accepted and changes nothing of the game
\* state.
C3_TradeOnlyWhileRunningOutsideLiquidation ==
  [][ (lastOp'.op \in {"BUY", "SELL"}
         /\ (gameState.isInLiquidationPhase \/ ~gameState.isRunning
               \/ gameState.isGameOver)) =>
        /\ lastOp'.result # "accepted"
        /\ gameState' = gameState
    ]_vars

\* a trade click that was turned down while the running session liquidates
\* a position
C3_Witness ==
  /\ lastOp.op \in {"BUY", "SELL"}
  /\ lastOp.result = "ignored"
  /\ gameState.isRunning
  /\ gameState.isInLiquidationPhase
  /\ gameState.inventory # 0

(***************************************************************************)
(* C4                                                                      *)
(***************************************************************************)
\* C4: within one session market time never decreases, goes up by exactly
\* one on every advance that is not a no-op, is left alone by every other
\* call, and never exceeds the terminal time.
C4_MarketTimeMonotoneAndBounded ==
  /\ [](gameState.currentTime <= gameState.terminalTime)
  /\ [][ ~WasReset =>
           /\ gameState'.currentTime >= gameState.currentTime
           /\ Advanced => gameState'.currentTime = gameState.currentTime + 1
           /\ ~Advanced => gameState'.currentTime = gameState.currentTime
       ]_vars

\* the last advance of a session of several ticks reached the terminal time
C4_Witness ==
  /\ lastOp.op = "advance"
  /\ lastOp.result = "advanced"
  /\ gameState.terminalTime > 1
  /\ gameState.currentTime = gameState.terminalTime
  /\ Len(gameState.playerTrades) > 0

(***************************************************************************)
(* C6                                                                      *)
(***************************************************************************)
\* C6: once isInLiquidationPhase is true it stays true under every call
\* that is not a reset.
C6_LiquidationPhaseIsIrreversible ==
  [][ (gameState.isInLiquidationPhase /\ ~WasReset) =>
        gameState'.isInLiquidationPhase ]_vars

\* the flag is still set on the third tick of a liquidation phase
C6_Witness ==
  /\ gameState.isInLiquidationPhase
  /\ gameState.liquidationStepsElapsed >= 3
  /\ gameState.currentTime > gameState.liquidationStartTime

(***************************************************************************)
(* C7                                                                      *)
(***************************************************************************)
\* C7: from any reachable state a reset yields t = 0, micro clock 0, both
\* accounts at the initial cash and inventory, both trade logs empty,
\* isRunning, isGameOver and isInLiquidationPhase false, the liquidation
\* steps, rates and snapshots zero, and both friction states (and the zeta
\* series) the single value 0.
C7_ResetRestoresTheInitialSession ==
  [][ WasReset =>
        /\ gameState'.currentTime = 0
        /\ gameState'.currentZetaTime = 0
        /\ gameState'.cash = commonCash * Hundredths
        /\ gameState'.inventory = initialInventory
        /\ gameState'.aiCash = commonCash * Hundredths
        /\ gameState'.aiInventory = initialInventory
        /\ gameState'.playerTrades = << >>
        /\ gameState'.aiTrades = << >>
        /\ ~gameState'.isRunning
        /\ ~gameState'.isGameOver
        /\ ~gameState'.isInLiquidationPhase
        /\ gameState'.liquidationStepsElapsed = 0
        /\ gameState'.playerLiquidationRate.num = 0
        /\ gameState'.aiLiquidationRate.num = 0
        /\ gameState'.playerInventoryAtLiquidationStart = 0
        /\ gameState'.aiInventoryAtLiquidationStart = 0
        /\ gameState'.linearSpread = <<0>>
        /\ gameState'.aiLinearSpread = <<0>>
        /\ gameState'.zetaSeries = <<0>>
    ]_vars

\* a reset taken from the game-over box, that is from a session that was Over
C7_Witness ==
  /\ lastOp.op = "GAMEOVER_RESET"
  /\ lastOp.result = "reset"
  /\ gameState.currentTime = 0
  /\ gameState.playerTrades = << >>

(***************************************************************************)
(* C8                                                                      *)
(***************************************************************************)
\* C8: a player trade requested fewer than minZetaStepsBetweenTrades micro
\* steps after the player's last accepted trade is rejected and changes
\* nothing; an accepted trade is stamped with a micro time strictly above
\* the stamp of the previous accepted trade.
C8_PlayerTradeRateLimit ==
  [][ /\ (lastOp'.op \in {"BUY", "SELL"}
            /\ gameState.currentZetaTime - gameState.lastTradeZetaTime
                 < minZetaStepsBetweenTrades) =>
           /\ lastOp'.result # "accepted"
           /\ gameState' = gameState
      /\ TradeClick("accepted") =>
           /\ Last(gameState'.playerTrades).zetaTime
                = gameState'.lastTradeZetaTime
           /\ gameState'.lastTradeZetaTime > gameState.lastTradeZetaTime
           /\ gameState'.lastTradeZetaTime > gameState.currentZetaTime
    ]_vars

\* a trade that the rate limit rejected: it came in the micro step of the
\* player's last accepted trade
C8_Witness ==
  /\ lastOp.op \in {"BUY", "SELL"}
  /\ lastOp.result = "rejected"
  /\ gameState.currentZetaTime = gameState.lastTradeZetaTime
  /\ Len(gameState.playerTrades) >= 2

(***************************************************************************)
(* C9                                                                      *)
(***************************************************************************)
\* C9: on every tick of the accumulation phase whose market depth is <= 1
\* (10 tenths), whatever the price, calculateAIAction returns 0 and the AI
\* places no trade.
C9_NoAITradeAtDepthUpToOne ==
  [][ (Advanced /\ ~gameState'.isInLiquidationPhase
         /\ gameState'.currentDepth <= 10) =>
        /\ calculateAIAction(gameState'.assetPrice[gameState'.currentTime + 1],
                             gameState'.currentDepth) = 0
        /\ gameState'.aiTrades = gameState.aiTrades
        /\ gameState'.aiLinearSpread = gameState.aiLinearSpread
    ]_vars

(***************************************************************************)
(* C10                                                                     *)
(***************************************************************************)
\* C10: at the end of every advance that is not a no-op, the session is
\* Over with reason 'broke' if the player's wealth is <= 0 (also when
\* t >= T), else Over with reason 'time_up' if t >= T, else not Over; the
\* AI's wealth plays no part.
C10_TerminationAfterAdvance ==
  [][ Advanced =>
        IF PlayerWealth(gameState') <= 0
          THEN /\ gameState'.isGameOver
               /\ ~gameState'.isRunning
               /\ gameState'.gameOverReason = "broke"
        ELSE IF gameState'.currentTime >= gameState'.terminalTime
          THEN /\ gameState'.isGameOver
               /\ ~gameState'.isRunning
               /\ gameState'.gameOverReason = "time_up"
        ELSE /\ ~gameState'.isGameOver
             /\ gameState'.isRunning
             /\ gameState'.gameOverReason = ""
    ]_vars

\* the advance that reached the terminal time left the player broke
C10_Witness ==
  /\ lastOp.op = "advance"
  /\ lastOp.result = "advanced"
  /\ gameState.currentTime >= gameState.terminalTime
  /\ PlayerWealth(gameState) <= 0
  /\ gameState.gameOverReason = "broke"

(***************************************************************************)
(* C5                                                                      *)
(***************************************************************************)
\* one participant's liquidation step from inventory b to inventory a
NoOvershoot(i0, b, a, rate, stepsElapsed) ==
  /\ a = 0 \/ Sign(a) = Sign(b)
  /\ (i0 # 0 /\ WouldCross(b, DesiredAction(i0, b, rate, stepsElapsed)))
       => a = 0

\* C5: liquidation never overshoots: a liquidation step takes either
\* participant's inventory b to an inventory a with a = 0 or
\* sign(a) = sign(b), and when the desired action round(target - current)
\* would cross zero the applied action is exactly -current (a = 0).
C5_LiquidationNeverOvershoots ==
  [][ lastOp'.op = "processLiquidation" =>
        /\ NoOvershoot(gameState.playerInventoryAtLiquidationStart,
                       gameState.inventory, gameState'.inventory,
                       gameState.playerLiquidationRate,
                       gameState'.liquidationStepsElapsed)
        /\ NoOvershoot(gameState.aiInventoryAtLiquidationStart,
                       gameState.aiInventory, gameState'.aiInventory,
                       gameState.aiLiquidationRate,
                       gameState'.liquidationStepsElapsed)
    ]_vars

\* a step whose desired action crossed zero and that ended flat
C5_Witness ==
  /\ lastOp.op = "processLiquidation"
  /\ lastOp.result = "clamped"
  /\ gameState.inventory = 0
  /\ Len(gameState.playerTrades) > 0

(***************************************************************************)
(* C11                                                                     *)
(***************************************************************************)
\* C11: Over is absorbing: once the session is over, or t >= T, every
\* advance and every click but a reset leaves the whole game state (clocks,
\* accounts, friction states, trade logs, liquidation schedule, game-over
\* reason) unchanged.
C11_OverIsAbsorbing ==
  [][ ((gameState.isGameOver
          \/ gameState.currentTime >= gameState.terminalTime)
        /\ ~WasReset) =>
        /\ gameState' = gameState
        /\ lastOp'.result \in {"noop", "ignored"}
    ]_vars

\* a timer tick that found a session the player had gone broke in before
\* the terminal time
C11_Witness ==
  /\ lastOp.op = "advance"
  /\ lastOp.result = "noop"
  /\ gameState.isGameOver
  /\ gameState.gameOverReason = "broke"
  /\ gameState.currentTime < gameState.terminalTime
  /\ Len(gameState.playerTrades) > 0

(***************************************************************************)
(* C12                                                                     *)
(***************************************************************************)
\* C12: friction and cash arithmetic of one trade: with prior zeta z,
\* resilience 0, depth d and action a, the new zeta is z + |a|/max(0.1, d),
\* the cost is newZeta*|a| and the cash changes by -a*price - cost; with
\* d = 5, a = +1, price = 100 and z = 0 the new zeta is 0.20 and the cash
\* changes by -100.20 (cash and zeta in hundredths, depth in tenths).
C12_FrictionAndCashArithmetic ==
  [][ (TradeClick("accepted") /\ gameState.currentResilience = 0) =>
        LET a == ClickedAction
            z == Last(gameState.linearSpread)
            d == gameState.currentDepth
            price == gameState.currentPrice
            newZeta == Last(gameState'.linearSpread)
            cost == newZeta * Abs(a)
            cashChange == gameState'.cash - gameState.cash
        IN /\ Len(gameState'.linearSpread) = Len(gameState.linearSpread) + 1
           /\ newZeta = z + ((10 * Hundredths) \div Max(1, d)) * Abs(a)
           /\ cashChange = (-a) * price * Hundredths - cost
           /\ (d = 50 /\ a = 1 /\ price = 100 /\ z = 0) =>
                (newZeta = 20 /\ cost = 20 /\ cashChange = -10020)
    ]_vars

\* the scenario: the first trade of a session is a buy of one unit at price
\* 100 and depth 5 with resilience 0
C12_Witness ==
  /\ lastOp = [op |-> "BUY", result |-> "accepted"]
  /\ gameState.currentTime = 0
  /\ gameState.currentPrice = 100
  /\ gameState.currentDepth = 50
  /\ gameState.currentResilience = 0
  /\ gameState.linearSpread = <<0, 20>>
  /\ gameState.inventory = initialInventory + 1
  /\ gameState.cash = commonCash * Hundredths - 10020

(***************************************************************************)
(* C13                                                                     *)
(***************************************************************************)
\* the inventory inv and the log of a participant that entered with i0, k
\* steps into a schedule of `period` steps
OnLinearSchedule(i0, inv, trades, k, period) ==
  /\ (i0 % period = 0 /\ k <= period) =>
       /\ inv = i0 - k * (i0 \div period)
       /\ i0 # 0 =>
            /\ Len(trades) = k
            /\ \A n \in 1..k : trades[n].action = -(i0 \div period)
  /\ k >= period => inv = 0
  /\ inv = 0 \/ Sign(inv) = Sign(i0)

\* C13: linear liquidation schedule: a participant that enters liquidation
\* with inventory I0 and period P > 0, P dividing I0, and trades nothing
\* else holds I0 - k*I0/P after the k-th liquidation step (1 <= k <= P),
\* each step trading -I0/P, and is flat at step P without a sign flip.
C13_LinearLiquidationSchedule ==
  LET k == gameState.liquidationStepsElapsed
      period == gameState.terminalTime - gameState.liquidationStartTime
  IN /\ OnLinearSchedule(gameState.playerInventoryAtLiquidationStart,
                         gameState.inventory, gameState.playerTrades,
                         k, period)
     /\ OnLinearSchedule(gameState.aiInventoryAtLiquidationStart,
                         gameState.aiInventory, gameState.aiTrades,
                         k, period)

\* the scenario I0 = 10, P = 5 at its fifth step: flat after five sales of 2
C13_Witness ==
  /\ lastOp.op = "processLiquidation"
  /\ gameState.playerInventoryAtLiquidationStart = 10
  /\ gameState.terminalTime - gameState.liquidationStartTime = 5
  /\ gameState.liquidationStepsElapsed = 5
  /\ gameState.inventory = 0
  /\ Len(gameState.playerTrades) = 5
  /\ \A n \in 1..5 : gameState.playerTrades[n].action = -2

(***************************************************************************)
(* C14                                                                     *)
(***************************************************************************)
\* C14: fatal setup error: when no trajectory data is available (the CSV
\* load failed, or the loaded data holds no trajectory) the session never
\* becomes Running and no advance or trade changes its accounts, whatever
\* is clicked afterwards.
C14_NoSessionWithoutData ==
  (~gameState.csvData.loaded \/ gameState.csvData.ids = {}) =>
     /\ ~gameState.isRunning
     /\ gameState.currentTime = 0
     /\ gameState.cash = commonCash * Hundredths
     /\ gameState.inventory = initialInventory
     /\ gameState.playerTrades = << >>
     /\ gameState.aiCash = commonCash * Hundredths
     /\ gameState.aiInventory = initialInventory
     /\ gameState.aiTrades = << >>

(***************************************************************************)
(* C15                                                                     *)
(***************************************************************************)
\* C15: terminal-time clamping: after initialization and after every reset,
\* for a non-empty trajectory, the terminal time T is at most the number of
\* trajectory points minus one and the retained price, depth and resilience
\* series have exactly T + 1 points each, so the indices min(t, T) and t
\* read while advancing are inside the trajectory.
C15_TerminalTimeClamped ==
  LET T == gameState.terminalTime
      points == TrajectoryPoints(gameState.currentTrajectoryId)
  IN /\ T = Min(initialTerminalTime, points - 1)
     /\ Len(gameState.assetPrice) = T + 1
     /\ Len(gameState.depthSeries) = T + 1
     /\ Len(gameState.resilienceSeries) = T + 1
     /\ gameState.currentTime \in 0..T
     /\ Min(gameState.currentTime, T) + 1 \in DOMAIN gameState.assetPrice
     /\ gameState.currentPrice
          = gameState.assetPrice[Min(gameState.currentTime, T) + 1]

\* a reset that loaded a trajectory longer than the requested terminal time
\* and kept its first initialTerminalTime + 1 points
C15_Witness ==
  /\ lastOp.result = "reset"
  /\ TrajectoryPoints(gameState.currentTrajectoryId) > initialTerminalTime + 1
  /\ gameState.terminalTime = initialTerminalTime
  /\ Len(gameState.assetPrice) = initialTerminalTime + 1

(***************************************************************************)
(* C16                                                                     *)
(***************************************************************************)
\* C16: liveness: a started session with T >= 1 whose timer keeps ticking
\* eventually reaches Over (unless it is reset first), however the player's
\* clicks are interleaved, and every advance that changes state moves the
\* market clock one step towards T, so at most T advances change state.
C16_StartedSessionReachesOver ==
  /\ (gameState.isRunning /\ gameState.terminalTime >= 1)
       ~> (gameState.isGameOver \/ lastOp.result = "reset")
  /\ [][ /\ Advanced =>
              /\ gameState'.currentTime = gameState.currentTime + 1
              /\ gameState'.currentTime <= gameState'.terminalTime
              /\ gameState'.terminalTime = gameState.terminalTime
         /\ (lastOp'.op = "advance" /\ ~Advanced) => gameState' = gameState
     ]_vars

\* a session that traded and was ended by the timer at the terminal time
C16_Witness ==
  /\ lastOp = [op |-> "advance", result |-> "advanced"]
  /\ gameState.isGameOver
  /\ ~gameState.isRunning
  /\ gameState.gameOverReason = "time_up"
  /\ gameState.currentTime = gameState.terminalTime
  /\ gameState.terminalTime >= 1
  /\ Len(gameState.playerTrades) > 0

(***************************************************************************)
(* C17                                                                     *)
(***************************************************************************)
\* C17: liquidation entry timing: the session enters the liquidation phase
\* on the first advance after which t >= floor(T * 0.8), exactly once: after
\* every advance isInLiquidationPhase holds iff t >= liquidationStartTime,
\* the inventory snapshots and the rates -snapshot/(T - start) are taken
\* from the inventories at the entry tick and are not taken again.
C17_LiquidationEntryTiming ==
  [][ Advanced =>
        LET T == gameState'.terminalTime
            start == gameState'.liquidationStartTime
        IN /\ start = (T * tradingHorizonFractionNum)
                         \div tradingHorizonFractionDen
           /\ start = gameState.liquidationStartTime
           /\ gameState'.isInLiquidationPhase
                <=> gameState'.currentTime >= start
           /\ (~gameState.isInLiquidationPhase
                 /\ gameState'.isInLiquidationPhase) =>
                /\ gameState.currentTime < start \/ gameState.currentTime = 0
                /\ gameState'.playerInventoryAtLiquidationStart
                     = gameState.inventory
                /\ gameState'.aiInventoryAtLiquidationStart
                     = gameState.aiInventory
                /\ gameState'.playerLiquidationRate
                     = [num |-> -gameState.inventory, den |-> T - start]
                /\ gameState'.aiLiquidationRate
                     = [num |-> -gameState.aiInventory, den |-> T - start]
                /\ gameState'.liquidationStepsElapsed = 1
           /\ gameState.isInLiquidationPhase =>
                /\ gameState'.playerInventoryAtLiquidationStart
                     = gameState.playerInventoryAtLiquidationStart
                /\ gameState'.aiInventoryAtLiquidationStart
                     = gameState.aiInventoryAtLiquidationStart
                /\ gameState'.playerLiquidationRate
                     = gameState.playerLiquidationRate
                /\ gameState'.aiLiquidationRate = gameState.aiLiquidationRate
                /\ gameState'.liquidationStepsElapsed
                     = gameState.liquidationStepsElapsed + 1
    ]_vars

\* the entry tick of a session in which both participants hold inventory
C17_Witness ==
  /\ lastOp = [op |-> "advance", result |-> "advanced"]
  /\ gameState.isInLiquidationPhase
  /\ gameState.liquidationStepsElapsed = 1
  /\ gameState.currentTime = gameState.liquidationStartTime
  /\ gameState.liquidationStartTime > 0
  /\ gameState.playerInventoryAtLiquidationStart # 0
  /\ gameState.aiInventoryAtLiquidationStart # 0
  /\ gameState.playerLiquidationRate.num
       = -gameState.playerInventoryAtLiquidationStart

(***************************************************************************)
(* C18                                                                     *)
(***************************************************************************)
\* the action the liquidation controller takes for the AI on the tick that
\* leads from state `before` to state `after`
AILiquidationAction(before, after) ==
  IF after.aiInventoryAtLiquidationStart # 0 /\ before.aiInventory # 0
    THEN calculateLiquidationAction(after.aiInventoryAtLiquidationStart,
                                    before.aiInventory,
                                    after.aiLiquidationRate,
                                    after.liquidationStepsElapsed)
    ELSE 0

\* C18: the AI policy never acts in the liquidation phase: on every advance
\* whose resulting t >= liquidationStartTime (the entry tick included) the
\* AI policy is not consulted: the AI's account, friction state and log
\* change by the liquidation controller's trade and by nothing else.
C18_NoAIPolicyInLiquidation ==
  [][ (Advanced
        /\ gameState'.currentTime >= gameState'.liquidationStartTime) =>
        LET a == AILiquidationAction(gameState, gameState')
        IN IF a = 0
             THEN /\ gameState'.aiTrades = gameState.aiTrades
                  /\ gameState'.aiLinearSpread = gameState.aiLinearSpread
                  /\ gameState'.aiInventory = gameState.aiInventory
                  /\ gameState'.aiCash = gameState.aiCash
             ELSE /\ gameState'.aiTrades =
                       Append(gameState.aiTrades,
                              TradeEntry(gameState', CandleIndex(gameState'), a))
                  /\ Len(gameState'.aiLinearSpread)
                       = Len(gameState.aiLinearSpread) + 1
                  /\ gameState'.aiInventory = gameState.aiInventory + a
    ]_vars

\* a tick of the liquidation phase on which the AI, short from its policy's
\* sales, bought back and holds less than its snapshot
C18_Witness ==
  /\ lastOp = [op |-> "advance", result |-> "advanced"]
  /\ gameState.isInLiquidationPhase
  /\ gameState.currentTime > gameState.liquidationStartTime
  /\ gameState.aiInventoryAtLiquidationStart < -1
  /\ Len(gameState.aiTrades) > 0
  /\ Last(gameState.aiTrades).time = gameState.currentTime
  /\ Last(gameState.aiTrades).action > 0
  /\ gameState.aiInventory > gameState.aiInventoryAtLiquidationStart

(***************************************************************************)
(* C19                                                                     *)
(***************************************************************************)
\* the trades of an AI log placed before the liquidation start time carry
\* the candle index of their time and no two of them the same one
OnePerCandle(trades, liquidationStart) ==
  \A i, j \in 1..Len(trades) :
    (trades[i].time < liquidationStart /\ trades[j].time < liquidationStart) =>
      /\ trades[i].candleIndex = trades[i].time \div pointsPerCandle
      /\ (i # j => trades[i].candleIndex # trades[j].candleIndex)

\* C19: one AI decision per aggregation window: during the accumulation
\* phase the AI's log holds at most one trade per candle index
\* floor(t / pointsPerCandle), and a tick whose candle already has an AI
\* trade leaves the AI's account, friction state and log unchanged.
C19_OneAIDecisionPerCandle ==
  [][ (Advanced /\ ~gameState'.isInLiquidationPhase) =>
        /\ OnePerCandle(gameState'.aiTrades, gameState'.liquidationStartTime)
        /\ (\E i \in 1..Len(gameState.aiTrades) :
              gameState.aiTrades[i].candleIndex
                = gameState'.currentTime \div pointsPerCandle) =>
             /\ gameState'.aiTrades = gameState.aiTrades
             /\ gameState'.aiLinearSpread = gameState.aiLinearSpread
             /\ gameState'.aiCash = gameState.aiCash
             /\ gameState'.aiInventory = gameState.aiInventory
    ]_vars

\* an accumulation tick in the second or a later candle that the AI, having
\* traded in this candle on an earlier tick, sat out
C19_Witness ==
  /\ lastOp = [op |-> "advance", result |-> "advanced"]
  /\ ~gameState.isInLiquidationPhase
  /\ Len(gameState.aiTrades) >= 2
  /\ Last(gameState.aiTrades).candleIndex
       = gameState.currentTime \div pointsPerCandle
  /\ Last(gameState.aiTrades).candleIndex >= 1
  /\ Last(gameState.aiTrades).time < gameState.currentTime

(***************************************************************************)
(* C20                                                                     *)
(***************************************************************************)
\* the action the liquidation controller takes for the player on the tick
\* that leads from state `before` to state `after`
PlayerLiquidationAction(before, after) ==
  IF after.playerInventoryAtLiquidationStart # 0 /\ before.inventory # 0
    THEN calculateLiquidationAction(after.playerInventoryAtLiquidationStart,
                                    before.inventory,
                                    after.playerLiquidationRate,
                                    after.liquidationStepsElapsed)
    ELSE 0

\* a forced trade of action a at the market values of state `after`, applied
\* to an account (cash, inventory, friction history, log): friction is paid
\* through the account's own history, nothing is validated
ForcedTradeApplied(a, after, cash, cash2, inv, inv2, zeta, zeta2, log, log2) ==
  LET newZeta == DecayFull(after.currentResilience, Last(zeta))
                   + ((10 * Hundredths) \div Max(1, after.currentDepth)) * Abs(a)
  IN /\ zeta2 = Append(zeta, newZeta)
     /\ cash2 = cash - a * after.currentPrice * Hundredths - newZeta * Abs(a)
     /\ inv2 = inv + a
     /\ log2 = Append(log, [candleIndex |-> after.currentTime \div pointsPerCandle,
                            action |-> a,
                            time |-> after.currentTime,
                            zetaTime |-> after.currentZetaTime])

\* C20: forced liquidation trades bypass validation: whenever the
\* liquidation controller computes a non-zero action for a participant the
\* trade is applied (cash += -action*price - friction, inventory += action,
\* that participant's friction state advanced, trade logged), even when the
\* resulting wealth is negative.
C20_LiquidationBypassesValidation ==
  [][ (Advanced /\ gameState'.isInLiquidationPhase) =>
        LET a == PlayerLiquidationAction(gameState, gameState')
            b == AILiquidationAction(gameState, gameState')
        IN /\ a # 0 =>
                ForcedTradeApplied(a, gameState',
                  gameState.cash, gameState'.cash,
                  gameState.inventory, gameState'.inventory,
                  gameState.linearSpread, gameState'.linearSpread,
                  gameState.playerTrades, gameState'.playerTrades)
           /\ b # 0 =>
                ForcedTradeApplied(b, gameState',
                  gameState.aiCash, gameState'.aiCash,
                  gameState.aiInventory, gameState'.aiInventory,
                  gameState.aiLinearSpread, gameState'.aiLinearSpread,
                  gameState.aiTrades, gameState'.aiTrades)
    ]_vars

\* a forced sale that was applied although it left the player with negative
\* wealth
C20_Witness ==
  /\ lastOp = [op |-> "advance", result |-> "advanced"]
  /\ gameState.isInLiquidationPhase
  /\ Len(gameState.playerTrades) > 0
  /\ Last(gameState.playerTrades).time = gameState.currentTime
  /\ gameState.inventory # gameState.playerInventoryAtLiquidationStart
  /\ PlayerWealth(gameState) < 0

(***************************************************************************)
(* C21                                                                     *)
(***************************************************************************)
\* C21: zero-length liquidation period: when T - liquidationStartTime <= 0
\* as liquidation is entered, both liquidation rates are 0 and no automated
\* liquidation trade is executed for either participant for the rest of the
\* session: in the liquidation phase the accounts, friction states and logs
\* stay as they were.
C21_ZeroLiquidationPeriod ==
  [][ (gameState'.isInLiquidationPhase
        /\ gameState'.terminalTime - gameState'.liquidationStartTime <= 0) =>
        /\ gameState'.playerLiquidationRate.num = 0
        /\ gameState'.aiLiquidationRate.num = 0
        /\ gameState'.playerTrades = gameState.playerTrades
        /\ gameState'.aiTrades = gameState.aiTrades
        /\ gameState'.inventory = gameState.inventory
        /\ gameState'.aiInventory = gameState.aiInventory
        /\ gameState'.cash = gameState.cash
        /\ gameState'.aiCash = gameState.aiCash
        /\ gameState'.linearSpread = gameState.linearSpread
        /\ gameState'.aiLinearSpread = gameState.aiLinearSpread
    ]_vars

\* liquidation was entered with no period left while both participants held
\* inventory, and the tick traded nothing
C21_Witness ==
  /\ lastOp = [op |-> "advance", result |-> "advanced"]
  /\ gameState.isInLiquidationPhase
  /\ gameState.terminalTime - gameState.liquidationStartTime <= 0
  /\ gameState.liquidationStepsElapsed = 1
  /\ gameState.playerInventoryAtLiquidationStart # 0
  /\ gameState.aiInventoryAtLiquidationStart # 0
  /\ gameState.inventory = gameState.playerInventoryAtLiquidationStart
  /\ gameState.aiInventory = gameState.aiInventoryAtLiquidationStart

(***************************************************************************)
(* C22                                                                     *)
(***************************************************************************)
\* C22: derived wealth is recomputed for both participants on every
\* advance: after every advance that is not a no-op the stored pnl equals
\* cash + inventory*currentPrice and the stored aiPnl equals
\* aiCash + aiInventory*currentPrice at the refreshed price.
C22_WealthRecomputedOnAdvance ==
  [][ Advanced =>
        /\ gameState'.pnl = PlayerWealth(gameState')
        /\ gameState'.aiPnl = AIWealth(gameState')
    ]_vars

\* the player's half of C22, which the code keeps
C22_PlayerWealthRecomputed ==
  [][ Advanced => gameState'.pnl = PlayerWealth(gameState') ]_vars

(***************************************************************************)
(* C23                                                                     *)
(***************************************************************************)
\* n decay-only steps exp(-resilience / zetaStepsPerMarketStep) applied to z
RECURSIVE DecaySteps(_, _, _)
DecaySteps(z, resilience, n) ==
  IF n = 0 THEN z ELSE DecaySteps(DecayMicro(resilience, z), resilience, n - 1)

\* C23: decay between trades reaches the friction model: an advance applies
\* one decay-only step per micro-tick elapsed to the friction state, so the
\* zeta the player's next trade cost is computed from has been decayed once
\* for every micro-tick of the advance (ticks of the accumulation phase,
\* on which nothing else touches the player's friction state).
C23_DecayReachesFrictionModel ==
  [][ (Advanced /\ ~gameState'.isInLiquidationPhase) =>
        Last(gameState'.linearSpread) =
          DecaySteps(Last(gameState.linearSpread),
                     gameState'.currentResilience,
                     gameState'.currentZetaTime - gameState.currentZetaTime)
    ]_vars

\* what the code does instead: the decay steps of an advance go to the
\* recorded zeta series, the friction states are left as they were
C23_DecayReachesZetaSeriesOnly ==
  [][ (Advanced /\ ~gameState'.isInLiquidationPhase) =>
        /\ gameState'.linearSpread = gameState.linearSpread
        /\ Last(gameState'.zetaSeries) =
             DecaySteps(Last(gameState.zetaSeries),
                        gameState'.currentResilience,
                        gameState'.currentZetaTime - gameState.currentZetaTime)
    ]_vars

(***************************************************************************)
(* C24                                                                     *)
(***************************************************************************)
\* C24: micro clock value: the micro clock never decreases within a
\* session; after every advance that is not a no-op it equals
\* t * zetaStepsPerMarketStep; each accepted player trade advances it by
\* exactly 1 (no other click moves it); and the number of decay entries an
\* advance appends to the zeta series equals the amount the micro clock
\* moved in that advance (a forced player trade of the same tick appends its
\* own entry after them).
C24_MicroClockValue ==
  [][ LET moved == gameState'.currentZetaTime - gameState.currentZetaTime
          before == Len(gameState.zetaSeries)
          forced == Len(gameState'.playerTrades) - Len(gameState.playerTrades)
      IN /\ ~WasReset => moved >= 0
         /\ Advanced =>
              /\ gameState'.currentZetaTime
                   = gameState'.currentTime * zetaStepsPerMarketStep
              /\ Len(gameState'.zetaSeries) = before + moved + forced
              /\ \A i \in 1..moved :
                   gameState'.zetaSeries[before + i] =
                     DecayMicro(gameState'.currentResilience,
                                gameState'.zetaSeries[before + i - 1])
         /\ TradeClick("accepted") => moved = 1
         /\ (~Advanced /\ ~TradeClick("accepted") /\ ~WasReset) => moved = 0
    ]_vars

\* an advance that followed an accepted trade: the micro clock, one ahead
\* of the market clock after the trade, was caught up in three decay steps
C24_Witness ==
  /\ lastOp = [op |-> "advance", result |-> "advanced"]
  /\ ~gameState.isInLiquidationPhase
  /\ Len(gameState.playerTrades) > 0
  /\ Last(gameState.playerTrades).zetaTime + zetaStepsPerMarketStep - 1
       = gameState.currentZetaTime
  /\ gameState.currentZetaTime
       = gameState.currentTime * zetaStepsPerMarketStep
  /\ gameState.currentResilience > 0

(***************************************************************************)
(* C25                                                                     *)
(***************************************************************************)
\* C25: on an accepted player trade every zeta value the trade updates, the
\* player's friction state and the recorded zeta series, uses the full
\* resilience decay factor exp(-resilience), not the micro-step factor
\* exp(-resilience / zetaStepsPerMarketStep) of the decay-only ticks.
C25_TradeUsesFullDecay ==
  [][ TradeClick("accepted") =>
        LET impact == ((10 * Hundredths) \div Max(1, gameState.currentDepth))
                        * Abs(ClickedAction)
            resilience == gameState.currentResilience
        IN /\ Last(gameState'.linearSpread)
                = DecayFull(resilience, Last(gameState.linearSpread)) + impact
           /\ Last(gameState'.zetaSeries)
                = DecayFull(resilience, Last(gameState.zetaSeries)) + impact
    ]_vars

\* what the code does: the friction state decays by the full factor, the
\* recorded zeta series by the micro-step factor
C25_ZetaSeriesUsesMicroDecay ==
  [][ TradeClick("accepted") =>
        LET impact == ((10 * Hundredths) \div Max(1, gameState.currentDepth))
                        * Abs(ClickedAction)
            resilience == gameState.currentResilience
        IN /\ Last(gameState'.linearSpread)
                = DecayFull(resilience, Last(gameState.linearSpread)) + impact
           /\ Last(gameState'.zetaSeries)
                = DecayMicro(resilience, Last(gameState.zetaSeries)) + impact
    ]_vars

(***************************************************************************)
(* C26                                                                     *)
(***************************************************************************)
\* one valueFor call on a friction history (zeta to zeta2) for an account
\* whose wealth at the trade price goes from w to w2 while its log goes from
\* log to log2: the cost is not negative, an applied trade lowers the wealth
\* by exactly the cost, a validated trade is applied iff w >= cost
FrictionOnly(zeta, zeta2, log, log2, w, w2, validated) ==
  Len(zeta2) = Len(zeta) + 1 =>
    LET action == IF Len(log2) > Len(log) THEN Last(log2).action ELSE 1
        cost == Last(zeta2) * Abs(action)
    IN /\ cost >= 0
       /\ Len(log2) > Len(log) => w2 = w - cost
       /\ validated => (Len(log2) > Len(log) <=> w >= cost)

\* C26: every applied trade changes the participant's mark-to-market wealth
\* at the trade price by exactly minus the friction cost, whatever the price
\* and the direction; the friction cost is never negative; and validateTrade
\* accepts a trade iff the pre-trade wealth is at least the friction cost.
C26_TradeCostsExactlyTheFriction ==
  [][ /\ (lastOp'.op \in {"BUY", "SELL"}) =>
           FrictionOnly(gameState.linearSpread, gameState'.linearSpread,
                        gameState.playerTrades, gameState'.playerTrades,
                        PlayerWealth(gameState), PlayerWealth(gameState'),
                        TRUE)
      /\ Advanced =>
           /\ FrictionOnly(gameState.linearSpread, gameState'.linearSpread,
                gameState.playerTrades, gameState'.playerTrades,
                gameState.cash
                  + gameState.inventory * gameState'.currentPrice * Hundredths,
                PlayerWealth(gameState'), FALSE)
           /\ FrictionOnly(gameState.aiLinearSpread, gameState'.aiLinearSpread,
                gameState.aiTrades, gameState'.aiTrades,
                gameState.aiCash
                  + gameState.aiInventory * gameState'.currentPrice * Hundredths,
                AIWealth(gameState'), ~gameState'.isInLiquidationPhase)
    ]_vars

\* a first trade that sold one unit: the wealth is the initial cash less the
\* friction paid
C26_Witness ==
  /\ lastOp = [op |-> "SELL", result |-> "accepted"]
  /\ Len(gameState.playerTrades) = 1
  /\ gameState.inventory = initialInventory - 1
  /\ Last(gameState.linearSpread) > 0
  /\ PlayerWealth(gameState)
       = commonCash * Hundredths - Last(gameState.linearSpread)

(***************************************************************************)
(* C27                                                                     *)
(***************************************************************************)
\* C27: at most one player trade is accepted between two consecutive
\* advances: after an accepted trade the micro clock equals the last-trade
\* micro time, it stays there until the next advance, and every trade
\* requested before that advance is rejected; so no two trades of the
\* player's log carry the same market time.
C27_OneTradePerTick ==
  [][ /\ TradeClick("accepted") =>
           /\ gameState'.currentZetaTime = gameState'.lastTradeZetaTime
           /\ gameState'.currentZetaTime = gameState.currentZetaTime + 1
      /\ (gameState.currentZetaTime = gameState.lastTradeZetaTime
            /\ ~Advanced /\ ~WasReset) =>
           /\ gameState'.currentZetaTime = gameState.currentZetaTime
           /\ gameState'.lastTradeZetaTime = gameState.lastTradeZetaTime
           /\ gameState'.playerTrades = gameState.playerTrades
           /\ lastOp'.op \in {"BUY", "SELL"} =>
                /\ lastOp'.result # "accepted"
                /\ gameState' = gameState
                /\ (gameState.isRunning /\ ~gameState.isInLiquidationPhase)
                     => lastOp'.result = "rejected"
      /\ \A i, j \in 1..Len(gameState'.playerTrades) :
           i # j => gameState'.playerTrades[i].time
                      # gameState'.playerTrades[j].time
    ]_vars

\* the second order of a tick, rejected: the player's only trade was
\* accepted on this tick, after at least one advance
C27_Witness ==
  /\ lastOp.op \in {"BUY", "SELL"}
  /\ lastOp.result = "rejected"
  /\ gameState.currentTime >= 1
  /\ Len(gameState.playerTrades) = 1
  /\ Last(gameState.playerTrades).time = gameState.currentTime
  /\ gameState.currentZetaTime = gameState.lastTradeZetaTime
  /\ gameState.currentZetaTime
       = gameState.currentTime * zetaStepsPerMarketStep + 1

(***************************************************************************)
(* C28                                                                     *)
(***************************************************************************)
\* C28: flat at the horizon: with the configured horizon fraction 0.8 and
\* T >= 1, whenever a session is over with reason 'time_up' the player's
\* inventory and the AI's inventory are both exactly 0.
C28_FlatAtTheHorizon ==
  (gameState.isGameOver /\ gameState.gameOverReason = "time_up"
     /\ gameState.terminalTime >= 1) =>
    /\ gameState.inventory = 0
    /\ gameState.aiInventory = 0

\* a session ended by the timer after both participants entered the
\* liquidation phase with a position and were unwound
C28_Witness ==
  /\ gameState.isGameOver
  /\ gameState.gameOverReason = "time_up"
  /\ gameState.terminalTime >= 1
  /\ gameState.playerInventoryAtLiquidationStart # 0
  /\ gameState.aiInventoryAtLiquidationStart # 0
  /\ gameState.inventory = 0
  /\ gameState.aiInventory = 0

(***************************************************************************)
(* C29                                                                     *)
(***************************************************************************)
\* the change of one participant's inventory is 0 or against the inventory
\* held, and does not enlarge its absolute value
Unwinds(inv, inv2) ==
  /\ Abs(inv2) <= Abs(inv)
  /\ inv2 = inv \/ Sign(inv2 - inv) = -Sign(inv)

\* C29: during the liquidation phase the absolute value of each
\* participant's inventory never increases from one tick to the next: every
\* liquidation action is 0 or has the sign opposite to the current
\* inventory, for every integer entry inventory I0 and period P > 0.
C29_LiquidationNeverAddsInventory ==
  [][lastOp'.op = "processLiquidation" =>
       /\ Unwinds(gameState.inventory, gameState'.inventory)
       /\ Unwinds(gameState.aiInventory, gameState'.aiInventory)]_vars

\* the same over the ticks of a session, the tick of entry included
C29_SessionLiquidationNeverAddsInventory ==
  [][(Advanced /\ gameState'.isInLiquidationPhase) =>
       /\ Unwinds(gameState.inventory, gameState'.inventory)
       /\ Unwinds(gameState.aiInventory, gameState'.aiInventory)]_vars

\* the tick after the period of an entry inventory 3 unwound over 2 steps
\* (3, 1, 0): the participant is flat and stays flat
C29_Witness ==
  /\ lastOp.op = "processLiquidation"
  /\ gameState.playerInventoryAtLiquidationStart = 3
  /\ gameState.terminalTime - gameState.liquidationStartTime = 2
  /\ gameState.liquidationStepsElapsed = 3
  /\ gameState.inventory = 0
  /\ Len(gameState.playerTrades) = 2

(***************************************************************************)
(* C30                                                                     *)
(***************************************************************************)
\* the lifecycle flags of one state agree with each other
LifecycleFlags(state) ==
  /\ state.isGameOver => ~state.isRunning
  /\ state.isGameOver <=> state.gameOverReason \in {"broke", "time_up"}
  /\ ~state.isGameOver => state.gameOverReason = ""

\* an Over session stays Over and stopped until a reset, which leaves it
\* stopped; a stopped session starts running only by START, never from Over
OverLeavesOnlyByReset ==
  /\ gameState.isGameOver =>
       /\ ~gameState'.isRunning
       /\ gameState'.isGameOver \/ WasReset
  /\ (~gameState.isRunning /\ gameState'.isRunning) =>
       /\ ~gameState.isGameOver
       /\ lastOp' = [op |-> "START", result |-> "started"]

\* C30: lifecycle flag consistency: in every reachable state isGameOver
\* implies isRunning = false; gameOverReason is 'broke' or 'time_up' exactly
\* when isGameOver is true and is empty otherwise; and a session that is
\* Over can only return to Running via reset() followed by start.
C30_LifecycleFlagConsistency ==
  /\ []LifecycleFlags(gameState)
  /\ [][OverLeavesOnlyByReset]_vars

\* START clicked on a session that went broke: it is still Over and stopped
C30_Witness ==
  /\ lastOp = [op |-> "START", result |-> "ignored"]
  /\ gameState.isGameOver
  /\ gameState.gameOverReason = "broke"
  /\ ~gameState.isRunning

\* a fresh session set running by START
C30_RunningAgain ==
  /\ lastOp = [op |-> "START", result |-> "started"]
  /\ gameState.isRunning
  /\ gameState.currentTime = 0

====
